---------------------------- MODULE Spec2Model ----------------------------
(***************************************************************************)
(* A model of @chatsift/logs: the LazyIter peekable stream (LazyIter.ts),  *)
(* the line classifier / crash reassembler (handleLine, handleLog), the    *)
(* batch buffer with flush(), and the driver loop of index.ts.             *)
(*                                                                         *)
(* Scheduling follows the Node event loop.  Code between two awaits runs   *)
(* atomically (one action).  A continuation released by a promise          *)
(* resolution is a microtask; timer callbacks and HTTP responses are       *)
(* macrotasks and run only when no microtask is runnable.                  *)
(*                                                                         *)
(* Text is modelled as a sequence of symbols: NL is the newline character  *)
(* and every other symbol stands for a newline-free piece of text whose    *)
(* name says how JSON.parse and the "error: " search treat it.             *)
(***************************************************************************)
EXTENDS Naturals, Sequences, FiniteSets

\* ------------------------------------------------------------------ bounds
MaxItems == 3        \* lines the logged process writes in one run of the program
MaxStreamItems == 2  \* items the source yields in one run of the stream-only specification
MaxChunk == 2        \* lines one raw chunk may hold
MaxTimerFlushes == 1 \* flush() invocations started by the interval timer
MaxFailures == 1     \* failed answers of the sink and of the notification channel in one run
NumCallers == 2      \* concurrent users of a LazyIter in the stream-only specification
MaxLoops == 2        \* instances of the pull loop that may run at once

VARIABLES
    \* LazyIter
    srcDone,              \* #done
    reading,              \* #reading
    looping,              \* instances of loop() that are running (each awaits this.iter.next())
    resumed,              \* history: the last resume(): what it returned and what it found
    buffer,               \* buffer: T[]
    peekWaitingPromises,  \* callers suspended in peek(), oldest first
    nextWaitingPromises,  \* callers suspended in next(), oldest first
    released,             \* settled waiters whose continuation has not run yet (microtask order)
    input,                \* history: every item the pull loop appended, in order
    raw,                  \* history: the text of the chunks delivered, where a run records it
    \* callers of the stream-only specification
    cpc, cres, cwhy, peekMark, nextReturned,
    \* index.ts: driver loop and handleLine
    alphabet,             \* the lines the logged process may write in this run
    dpc, item, stackParts, rest,
    handled, lookahead,
    \* index.ts: batch and flush
    batch,
    appended,             \* history: every record the driver pushed to the batch, in order
    fpc, fstatus, nTimer,
    nFail,                \* failed sink and notification answers so far
    sinkLog,              \* history: the bodies POSTed to the sink
    discordLog,           \* history: the embeds passed to discord.webhooks.execute
    during                \* history: ids the driver appended while each flush() was in flight

iterVars == <<srcDone, reading, looping, resumed, buffer, peekWaitingPromises, nextWaitingPromises,
              released, input, raw>>
callerVars == <<cpc, cres, cwhy, peekMark, nextReturned>>
driverVars == <<dpc, item, stackParts, rest, handled, lookahead>>
batchVars == <<batch, appended>>
flushVars == <<fpc, fstatus, nTimer, nFail, sinkLog, discordLog, during>>
vars == <<iterVars, callerVars, alphabet, driverVars, batchVars, flushVars>>

\* ------------------------------------------------------------------ text
NL == "\n"

\* An item of the stream.  pos is the item's index in the stream; the code never reads it.
Line(p, t) == [pos |-> p, text |-> t]

\* undefined, as returned by buffer[0] and buffer.shift() on an empty array
Absent == [pos |-> 0, text |-> <<"undefined">>]

\* JSON.parse(line): the parsed value, or "throws"
\*   text    "    at foo.js:1:1"             crash  "TypeError: oops"
\*   info    {"time":1,"level":30,"msg":..}  error  {"time":1,"level":50,..}
\*   named   {"time":1,"level":30,"name":"x"}
\*   noname  {"time":1,"level":30,"name":""}
\*   notime  {"level":30}                    nolevel {"time":1}
\*   prim    42                              badtime {"time":"x","level":30}
\*   notimeNamed  {"level":30,"name":"x"}
\*   fatal60, warn40, debug20, trace10, level35: {"time":1,"level":<the number>}
JSONparse(t) ==
    LET obj(tm, hl, lv, nm) ==
            [type |-> "object", time |-> tm, hasLevel |-> hl, level |-> lv, name |-> nm]
        other(ty) ==
            [type |-> ty, time |-> "absent", hasLevel |-> FALSE, level |-> 0, name |-> "absent"]
    IN  IF Len(t) # 1 THEN other("throws")
        ELSE CASE t[1] = "info"    -> obj("epoch", TRUE, 30, "absent")
               [] t[1] = "error"   -> obj("epoch", TRUE, 50, "absent")
               [] t[1] = "fatal60" -> obj("epoch", TRUE, 60, "absent")
               [] t[1] = "warn40"  -> obj("epoch", TRUE, 40, "absent")
               [] t[1] = "debug20" -> obj("epoch", TRUE, 20, "absent")
               [] t[1] = "trace10" -> obj("epoch", TRUE, 10, "absent")
               [] t[1] = "level35" -> obj("epoch", TRUE, 35, "absent")
               [] t[1] = "named"   -> obj("epoch", TRUE, 30, "x")
               [] t[1] = "noname"  -> obj("epoch", TRUE, 30, "")
               [] t[1] = "notime"  -> obj("absent", TRUE, 30, "absent")
               [] t[1] = "nolevel" -> obj("epoch", FALSE, 0, "absent")
               [] t[1] = "notimeNamed" -> obj("absent", TRUE, 30, "x")
               [] t[1] = "badtime" -> obj("invalid", TRUE, 30, "absent")
               [] t[1] = "prim"    -> other("primitive")
               [] OTHER            -> other("throws")

isValidJson(line) == JSONparse(line.text).type # "throws"

\* line.toLowerCase().includes('error: ')
includesError(line) == \E i \in 1..Len(line.text) : line.text[i] = "crash"

\* chunk.split('\n')
RECURSIVE SplitFrom(_, _, _)
SplitFrom(chunk, cur, acc) ==
    IF chunk = <<>> THEN Append(acc, cur)
    ELSE IF Head(chunk) = NL THEN SplitFrom(Tail(chunk), <<>>, Append(acc, cur))
    ELSE SplitFrom(Tail(chunk), Append(cur, Head(chunk)), acc)

split(chunk) == SplitFrom(chunk, <<>>, <<>>)

\* texts.join('\n'): the raw text whose lines are `texts`
RECURSIVE JoinNL(_)
JoinNL(texts) ==
    IF Len(texts) = 1 THEN texts[1]
    ELSE texts[1] \o <<NL>> \o JoinNL(Tail(texts))

RECURSIVE SeqsUpTo(_, _)
SeqsUpTo(S, n) ==
    IF n = 0 THEN {<<>>}
    ELSE LET shorter == SeqsUpTo(S, n - 1)
         IN  shorter \cup {Append(s, x) : s \in {q \in shorter : Len(q) = n - 1}, x \in S}

\* The non-empty raw chunks of at most n lines, each line one of the texts T
Chunks(T, n) == {JoinNL(ts) : ts \in SeqsUpTo(T, n) \ {<<>>}} \ {<<>>}

Min(a, b) == IF a < b THEN a ELSE b

\* ------------------------------------------------------------------ LazyIter
\* get done()
done == srcDone /\ Len(buffer) = 0

\* a faulty variant of BufferHead: the newest item, this.buffer[this.buffer.length - 1]
BufferLast == IF Len(buffer) = 0 THEN Absent ELSE buffer[Len(buffer)]

\* this.buffer[0]
BufferHead == IF Len(buffer) = 0 THEN Absent ELSE Head(buffer)

\* what this.buffer.shift() leaves
BufferShifted == IF Len(buffer) = 0 THEN buffer ELSE Tail(buffer)

\* peek() up to its await: "return" (done: undefined), "await", or "value" (buffer[0])
PeekEntry == IF done THEN "return" ELSE IF Len(buffer) = 0 THEN "await" ELSE "value"

\* a faulty variant of NextEntry: testing this.#done where the code tests this.done
NextEntrySourceDone == IF srcDone THEN "throw" ELSE IF Len(buffer) = 0 THEN "await" ELSE "value"

\* next() up to its await: "throw", "await", or "value" (buffer.shift())
NextEntry == IF done THEN "throw" ELSE IF Len(buffer) = 0 THEN "await" ELSE "value"

\* a faulty variant of peekAnd: the predicate is not applied
peekAndAny(peeked) == peeked

\* peekAnd(is) applied to what peek() returned, with is = (line) => !isValidJson(line)
peekAnd(peeked) ==
    IF peeked = Absent THEN Absent
    ELSE IF ~isValidJson(peeked) THEN peeked ELSE Absent

Settled(c, op, how) == [who |-> c, op |-> op, how |-> how]

\* loop(): the for loop over the transformed items of one chunk
RECURSIVE LoopItems(_, _)
LoopItems(texts, st) ==
    IF texts = <<>> THEN st
    ELSE LET pushed == Line(Len(st.inp) + 1, Head(texts))
             relP == IF st.pw = <<>> THEN st.rel
                     ELSE Append(st.rel, Settled(Head(st.pw), "peek", "resolve"))
             relN == IF st.nw = <<>> THEN relP
                     ELSE Append(relP, Settled(Head(st.nw), "next", "resolve"))
         IN  LoopItems(Tail(texts),
                       [buf |-> Append(st.buf, pushed),
                        inp |-> Append(st.inp, pushed),
                        pw  |-> IF st.pw = <<>> THEN st.pw ELSE Tail(st.pw),
                        nw  |-> IF st.nw = <<>> THEN st.nw ELSE Tail(st.nw),
                        rel |-> relN])

\* a faulty variant of LoopDone: the waiting peek() calls are not released
LoopDoneKeepsPeek(st) ==
    [st EXCEPT !.nw = <<>>,
               !.rel = st.rel
                       \o [i \in 1..Len(st.nw) |-> Settled(st.nw[i], "next", "reject")]]

\* a faulty variant of LoopDone: the waiting next() calls are not rejected
LoopDoneKeepsNext(st) ==
    [st EXCEPT !.pw = <<>>,
               !.rel = st.rel
                       \o [i \in 1..Len(st.pw) |-> Settled(st.pw[i], "peek", "resolve")]]

\* loop(): the if (done) block
LoopDone(st) ==
    [st EXCEPT !.pw = <<>>, !.nw = <<>>,
               !.rel = st.rel
                       \o [i \in 1..Len(st.pw) |-> Settled(st.pw[i], "peek", "resolve")]
                       \o [i \in 1..Len(st.nw) |-> Settled(st.nw[i], "next", "reject")]]

\* loop(): one iteration of while (this.#reading) of one running instance, resumed with
\* the iterator result { value, done }.  The iteration was suspended in
\* await this.iter.next() after the previous one settled its waiters, so their
\* continuations have run by now.  The instance tests this.#reading when the iteration
\* has ended and leaves the loop when it is false.
loop(value, isDone) ==
    LET st0 == [buf |-> buffer, inp |-> input, pw |-> peekWaitingPromises,
                nw |-> nextWaitingPromises, rel |-> released]
        st1 == IF value # <<>> THEN LoopItems(split(value), st0) ELSE st0
        st2 == IF isDone THEN LoopDone(st1) ELSE st1
    IN  /\ looping > 0
        /\ value # <<>> => ~srcDone
        /\ released = <<>>
        /\ buffer' = st2.buf
        /\ input' = st2.inp
        /\ peekWaitingPromises' = st2.pw
        /\ nextWaitingPromises' = st2.nw
        /\ released' = st2.rel
        /\ srcDone' = (srcDone \/ isDone)
        /\ reading' = (reading /\ ~isDone)
        /\ looping' = IF reading /\ ~isDone THEN looping ELSE looping - 1
        /\ UNCHANGED resumed


\* history: no resume() has been called
NoResume == [ret |-> "none", wasDone |-> FALSE, started |-> 0]

\* pause()
pause ==
    /\ reading' = FALSE
    /\ UNCHANGED <<srcDone, looping, resumed, buffer, peekWaitingPromises, nextWaitingPromises,
                   released, input, raw>>

\* resume(): false when #done; otherwise #reading = true and void this.loop(), whose new
\* instance runs up to its await this.iter.next()
resume ==
    /\ looping < MaxLoops
    /\ IF srcDone
       THEN /\ resumed' = [ret |-> "false", wasDone |-> srcDone, started |-> 0]
            /\ UNCHANGED <<reading, looping>>
       ELSE /\ reading' = TRUE
            /\ looping' = looping + 1
            /\ resumed' = [ret |-> "true", wasDone |-> srcDone, started |-> 1]
    /\ UNCHANGED <<srcDone, buffer, peekWaitingPromises, nextWaitingPromises, released, input, raw>>

\* ------------------------------------------------------------------ callers of a LazyIter
\* The stream-only specification: NumCallers independent users call peek() and next()
\* at any time, as code that holds a reference to the LazyIter may.
Callers == 1..NumCallers

Range(q) == {q[i] : i \in DOMAIN q}

IsPrefix(p, q) == Len(p) <= Len(q) /\ \A i \in DOMAIN p : p[i] = q[i]

\* history: the oldest item appended and not yet removed by a next(), Absent when none
Oldest ==
    LET removed == Cardinality({i \in DOMAIN nextReturned : nextReturned[i] # Absent})
    IN  IF removed < Len(input) THEN input[removed + 1] ELSE Absent

\* history: the outcome of a caller's last completed call
Result(op, val, err) == [op |-> op, val |-> val, err |-> err, wasDone |-> done, oldest |-> Oldest]

NoResult == [op |-> "none", val |-> Absent, err |-> FALSE, wasDone |-> FALSE, oldest |-> Absent]
NoWhy == [atCall |-> FALSE, srcDoneAtCall |-> FALSE, headAtCall |-> Absent, whileSuspended |-> FALSE]
NoMark == [n |-> 0, dirty |-> FALSE, prevVal |-> Absent, prevBuf |-> <<>>,
           val |-> Absent, bufAtCall |-> <<>>, bufAfter |-> <<>>]

\* history: a peek() called with buffer b0 completed with v, leaving buffer b1.  n counts
\* the caller's completed peek() calls (up to 2) since the last next() of any caller;
\* a peek() during which a next() ran (dirty) does not count.
Marked(m, v, b0, b1) ==
    IF m.dirty THEN NoMark
    ELSE [n |-> IF m.n = 0 THEN 1 ELSE 2, dirty |-> FALSE, prevVal |-> m.val,
          prevBuf |-> m.bufAtCall, val |-> v, bufAtCall |-> b0, bufAfter |-> b1]

\* history: a next() is called or resumes
Unmarked == [x \in Callers |-> [NoMark EXCEPT !.dirty = (cpc[x] = "peek")]]

\* peek(), called by c
CallPeek(c) ==
    /\ cpc[c] = "idle"
    /\ IF PeekEntry = "await"
       THEN /\ peekWaitingPromises' = Append(peekWaitingPromises, c)
            /\ cpc' = [cpc EXCEPT ![c] = "peek"]
            /\ UNCHANGED <<cres, peekMark>>
       ELSE /\ cres' = [cres EXCEPT ![c] =
                  Result("peek", IF PeekEntry = "return" THEN Absent ELSE BufferHead, FALSE)]
            /\ peekMark' = [peekMark EXCEPT ![c] =
                  Marked(peekMark[c], IF PeekEntry = "return" THEN Absent ELSE BufferHead,
                         buffer, buffer)]
            /\ UNCHANGED <<peekWaitingPromises, cpc>>
    /\ UNCHANGED <<srcDone, reading, looping, resumed, buffer, nextWaitingPromises, released, input, raw, cwhy, nextReturned>>

\* peek() after its await: return this.buffer[0]
ResumePeek(c) ==
    /\ released # <<>>
    /\ Head(released) = Settled(c, "peek", "resolve")
    /\ cpc[c] = "peek"
    /\ released' = Tail(released)
    /\ cpc' = [cpc EXCEPT ![c] = "idle"]
    /\ cres' = [cres EXCEPT ![c] = Result("peek", BufferHead, FALSE)]
    /\ peekMark' = [peekMark EXCEPT ![c] = Marked(peekMark[c], BufferHead, <<>>, buffer)]
    /\ UNCHANGED <<srcDone, reading, looping, resumed, buffer, peekWaitingPromises, nextWaitingPromises, input, raw, cwhy, nextReturned>>

\* next(), called by c
CallNext(c) ==
    /\ cpc[c] = "idle"
    /\ cwhy' = [cwhy EXCEPT ![c] = [atCall |-> done, srcDoneAtCall |-> srcDone,
                                    headAtCall |-> BufferHead, whileSuspended |-> FALSE]]
    /\ peekMark' = Unmarked
    /\ CASE NextEntry = "throw" ->
              /\ cres' = [cres EXCEPT ![c] = Result("next", Absent, TRUE)]
              /\ UNCHANGED <<buffer, nextWaitingPromises, cpc, nextReturned>>
         [] NextEntry = "await" ->
              /\ nextWaitingPromises' = Append(nextWaitingPromises, c)
              /\ cpc' = [cpc EXCEPT ![c] = "next"]
              /\ UNCHANGED <<buffer, cres, nextReturned>>
         [] NextEntry = "value" ->
              /\ cres' = [cres EXCEPT ![c] = Result("next", BufferHead, FALSE)]
              /\ nextReturned' = Append(nextReturned, BufferHead)
              /\ buffer' = BufferShifted
              /\ UNCHANGED <<nextWaitingPromises, cpc>>
    /\ UNCHANGED <<srcDone, reading, looping, resumed, peekWaitingPromises, released, input, raw>>

\* next() after its await: return this.buffer.shift(), or the rejection
ResumeNext(c) ==
    /\ released # <<>>
    /\ Head(released).who = c
    /\ Head(released).op = "next"
    /\ cpc[c] = "next"
    /\ released' = Tail(released)
    /\ cpc' = [cpc EXCEPT ![c] = "idle"]
    /\ peekMark' = Unmarked
    /\ IF Head(released).how = "reject"
       THEN /\ cres' = [cres EXCEPT ![c] = Result("next", Absent, TRUE)]
            /\ UNCHANGED <<buffer, nextReturned>>
       ELSE /\ cres' = [cres EXCEPT ![c] = Result("next", BufferHead, FALSE)]
            /\ nextReturned' = Append(nextReturned, BufferHead)
            /\ buffer' = BufferShifted
    /\ UNCHANGED <<srcDone, reading, looping, resumed, peekWaitingPromises, nextWaitingPromises, input, raw, cwhy>>

\* the underlying iterator yields a chunk
IterChunk ==
    /\ \E chunk \in Chunks(alphabet, Min(MaxStreamItems - Len(input), MaxChunk)) :
           loop(chunk, FALSE)
    /\ UNCHANGED <<raw, callerVars, alphabet, driverVars, batchVars, flushVars>>

\* the underlying iterator yields a chunk of the input text, which the run records
RawChunk ==
    /\ \E chunk \in Chunks(alphabet, Min(MaxStreamItems - Len(input), MaxChunk)) :
           /\ loop(chunk, FALSE)
           /\ raw' = raw \o chunk
    /\ UNCHANGED <<callerVars, alphabet, driverVars, batchVars, flushVars>>

\* the underlying iterator completes: { value: undefined, done: true }
IterEnd ==
    /\ loop(<<>>, TRUE)
    /\ cwhy' = [c \in Callers |->
                  IF \E i \in 1..Len(nextWaitingPromises) : nextWaitingPromises[i] = c
                  THEN [cwhy[c] EXCEPT !.whileSuspended = TRUE] ELSE cwhy[c]]
    /\ UNCHANGED <<raw, cpc, cres, peekMark, nextReturned, alphabet, driverVars, batchVars, flushVars>>

\* the rest of the module's state, which a caller of the stream leaves alone
CallerFrame == UNCHANGED <<alphabet, driverVars, batchVars, flushVars>>


\* ------------------------------------------------------------------ index.ts: records and the batch
DriverId == 0

FinalFlush == MaxTimerFlushes + 1
FlushIds == 1..FinalFlush

\* a faulty variant of LEVELS_MAP[level] ?? 'unknown': without the fallback
LevelsMapNoDefault(level) ==
    CASE level = 60 -> "fatal"
      [] level = 50 -> "error"
      [] level = 40 -> "warn"
      [] level = 30 -> "info"
      [] level = 20 -> "debug"
      [] level = 10 -> "trace"
      [] OTHER      -> "undefined"

\* LEVELS_MAP[level] ?? 'unknown'
LEVELS_MAP(level) ==
    CASE level = 60 -> "fatal"
      [] level = 50 -> "error"
      [] level = 40 -> "warn"
      [] level = 30 -> "info"
      [] level = 20 -> "debug"
      [] level = 10 -> "trace"
      [] OTHER      -> "unknown"

\* A log object.  kind stands for its message; src is the stream position of the line it
\* was made from (0: none), flush the flush() invocation that made it (0: none).
Log(level, kind, src, stack, name, field, f) ==
    [level |-> level, kind |-> kind, src |-> src, stack |-> stack,
     name |-> name, field |-> field, flush |-> f]

\* if (setName)
Truthy(name) == name \notin {"absent", ""}

\* const { name: setName, ...rest } = log
Rest(log) == [log EXCEPT !.name = "absent"]

\* the diagnostic handleLog makes for a log with a name
NameWarn(log) == Log("warn", "nameWarn", log.src, <<>>, "absent", "", 0)

\* what handleLog(log) pushes before it first suspends
HandleLogFirst(log) == IF Truthy(log.name) THEN Rest(NameWarn(log)) ELSE Rest(log)

InFlight(f) == fpc[f] \notin {"idle", "done"}

\* batch.push(log) in the driver's thread of control
DriverPush(log) ==
    /\ batch' = Append(batch, log)
    /\ appended' = Append(appended, log)
    /\ during' = [f \in FlushIds |-> IF InFlight(f) THEN during[f] \cup {log} ELSE during[f]]

\* ------------------------------------------------------------------ index.ts: flush
\* a faulty variant of FlushCall: without if (!batch.length) return
FlushCallAlways(f) ==
    /\ sinkLog' = Append(sinkLog, [flush |-> f, body |-> batch])
    /\ fpc' = [fpc EXCEPT ![f] = "awaitSink"]

\* flush() up to its first await
FlushCall(f) ==
    IF Len(batch) = 0
    THEN /\ fpc' = [fpc EXCEPT ![f] = "done"]
         /\ UNCHANGED sinkLog
    ELSE /\ sinkLog' = Append(sinkLog, [flush |-> f, body |-> batch])
         /\ fpc' = [fpc EXCEPT ![f] = "awaitSink"]

\* batch.splice(0, batch.length) and the return of flush(); after await flush() of the
\* top level the module has run to its end
FlushReturn(f) ==
    /\ batch' = <<>>
    /\ fpc' = [fpc EXCEPT ![f] = "done"]
    /\ fstatus' = [fstatus EXCEPT ![f] = 0]
    /\ during' = [during EXCEPT ![f] = {}]
    /\ dpc' = IF f = FinalFlush THEN "done" ELSE dpc

\* flush() suspends at pc, having pushed `pushed` to the batch and seen statusCode
FlushAwait(f, pc, pushed, statusCode) ==
    /\ batch' = batch \o pushed
    /\ fpc' = [fpc EXCEPT ![f] = pc]
    /\ fstatus' = [fstatus EXCEPT ![f] = statusCode]
    /\ UNCHANGED <<dpc, during>>

\* batch.filter((log) => log.level === 'fatal' || log.level === 'error')
Errors(b) == SelectSeq(b, LAMBDA log : log.level \in {"fatal", "error"})

\* flush() from line 236: notify or, with nothing to notify, clear and return
FlushNotify(f, statusCode) ==
    IF Len(Errors(batch)) # 0
    THEN /\ discordLog' = Append(discordLog, [flush |-> f, embeds |-> Errors(batch)])
         /\ FlushAwait(f, "awaitDiscord", <<>>, statusCode)
    ELSE /\ FlushReturn(f)
         /\ UNCHANGED discordLog

\* Nothing is runnable: every thread of control awaits I/O, a timer or the stream
Quiescent ==
    /\ released = <<>>
    /\ dpc \in {"nextWait", "consumeWait", "peekWait", "finalFlush", "done"}
    /\ \A f \in FlushIds : fpc[f] \notin {"afterFatal", "afterWarn"}

\* setInterval(flush, 5_000).unref(): the timer fires while the process lives
TimerFire ==
    /\ Quiescent
    /\ nTimer < MaxTimerFlushes
    /\ dpc # "done" \/ \E f \in FlushIds : InFlight(f)
    /\ nTimer' = nTimer + 1
    /\ FlushCall(nTimer + 1)
    /\ UNCHANGED <<iterVars, callerVars, alphabet, driverVars, batch, appended,
                   fstatus, nFail, discordLog, during>>

\* the sink answers the POST
SinkResponse(f) ==
    /\ Quiescent
    /\ fpc[f] = "awaitSink"
    /\ \E statusCode \in {200} \cup (IF nFail < MaxFailures THEN {500} ELSE {}) :
          IF statusCode # 200
          THEN /\ FlushAwait(f, "awaitBody", <<>>, statusCode)
               /\ nFail' = nFail + 1
               /\ UNCHANGED discordLog
          ELSE /\ FlushNotify(f, statusCode)
               /\ UNCHANGED nFail
    /\ UNCHANGED <<iterVars, callerVars, alphabet, item, stackParts, rest, handled, lookahead,
                   appended, nTimer, sinkLog>>

\* the response body has been read: handleLog of the fatal diagnostic
SinkFailure(f) ==
    /\ Quiescent
    /\ fpc[f] = "awaitBody"
    /\ FlushAwait(f, "afterFatal",
                  <<HandleLogFirst(Log("fatal", "sinkFail", 0, <<>>, "absent", "", f))>>,
                  fstatus[f])
    /\ UNCHANGED <<iterVars, callerVars, alphabet, item, stackParts, rest, handled, lookahead,
                   appended, nTimer, nFail, sinkLog, discordLog>>

\* after await handleLog(...) of the fatal diagnostic
AfterFatal(f) ==
    /\ fpc[f] = "afterFatal"
    /\ FlushNotify(f, fstatus[f])
    /\ UNCHANGED <<iterVars, callerVars, alphabet, item, stackParts, rest, handled, lookahead,
                   appended, nTimer, nFail, sinkLog>>

\* discord.webhooks.execute settles
DiscordResponse(f) ==
    /\ Quiescent
    /\ fpc[f] = "awaitDiscord"
    /\ \E ok \in {TRUE} \cup (IF nFail < MaxFailures THEN {FALSE} ELSE {}) :
          IF ok
          THEN /\ FlushReturn(f)
               /\ UNCHANGED nFail
          ELSE /\ FlushAwait(f, "afterWarn",
                             <<HandleLogFirst(Log("warn", "discordFail", 0, <<>>, "absent", "", f))>>,
                             fstatus[f])
               /\ nFail' = nFail + 1
    /\ UNCHANGED <<iterVars, callerVars, alphabet, item, stackParts, rest, handled, lookahead,
                   appended, nTimer, sinkLog, discordLog>>

\* after await handleLog(...) of the warn diagnostic
AfterWarn(f) ==
    /\ fpc[f] = "afterWarn"
    /\ FlushReturn(f)
    /\ UNCHANGED <<iterVars, callerVars, alphabet, item, stackParts, rest, handled, lookahead,
                   appended, nTimer, nFail, sinkLog, discordLog>>

\* ------------------------------------------------------------------ index.ts: handleLine and the driver loop
\* The try block of handleLine up to handleLog(final): "catch" when JSON.parse throws,
\* when 'time' in log throws on a non-object, or when new Date(time).toISOString() throws
TryBlock(line) ==
    LET log == JSONparse(line.text)
    IN  IF log.type # "object" THEN "catch"
        ELSE IF log.time = "absent" THEN "time"
        ELSE IF ~log.hasLevel THEN "level"
        ELSE IF log.time = "invalid" THEN "catch"
        ELSE "final"

\* const final = { ...rest, message, error, datetime, level: LEVELS_MAP[level] ?? 'unknown' }
Final(line) ==
    Log(LEVELS_MAP(JSONparse(line.text).level), "log", line.pos, <<>>,
        JSONparse(line.text).name, "", 0)

\* a faulty variant of handleInvalid: the message always names the time field
handleInvalidTime(line, field) == Log("warn", "missing", line.pos, <<>>, "absent", "time", 0)

\* the log object handleInvalid(log, field) passes to handleLog; the parsed line is its
\* `log` property, so the object has no name of its own
handleInvalid(line, field) == Log("warn", "missing", line.pos, <<>>, "absent", field, 0)

\* stackParts.some((line) => line.toLowerCase().includes('error: ')): "throws" on undefined
SomeError(parts) ==
    IF \E i \in 1..Len(parts) :
          /\ parts[i] = Absent
          /\ \A j \in 1..(i - 1) : ~includesError(parts[j])
    THEN "throws"
    ELSE IF \E i \in 1..Len(parts) : includesError(parts[i]) THEN "true" ELSE "false"

\* a faulty variant of CrashLog: the stack is the first line alone
CrashLogFirstLine(parts) == Log("fatal", "crash", parts[1].pos, parts[1].text, "absent", "", 0)

\* the log object the catch block builds from stackParts: stack: stackParts.join('\n')
CrashLog(parts) ==
    Log("fatal", "crash", parts[1].pos, JoinNL([k \in DOMAIN parts |-> parts[k].text]),
        "absent", "", 0)

\* handleLine after the lookahead loop has ended
CrashFinish(parts) ==
    /\ IF SomeError(parts) = "true"
       THEN DriverPush(HandleLogFirst(CrashLog(parts)))
       ELSE UNCHANGED <<batchVars, during>>
    /\ dpc' = "loop"

\* the lookahead read `next` through peekAnd: push it and consume, or leave the loop
Lookahead(next) ==
    IF next # Absent
    THEN /\ stackParts' = Append(stackParts, next)
         /\ dpc' = "consume"
         /\ UNCHANGED <<batchVars, during>>
    ELSE /\ CrashFinish(stackParts)
         /\ UNCHANGED stackParts

\* while (!iter.done) { try { const item = await iter.next(); ...;  after it, await flush()
DriverLoop ==
    /\ dpc = "loop"
    /\ IF done
       THEN /\ FlushCall(FinalFlush)
            /\ dpc' = IF Len(batch) = 0 THEN "done" ELSE "finalFlush"
            /\ UNCHANGED <<buffer, nextWaitingPromises, item, handled>>
       ELSE /\ CASE NextEntry = "await" ->
                    /\ nextWaitingPromises' = Append(nextWaitingPromises, DriverId)
                    /\ dpc' = "nextWait"
                    /\ UNCHANGED <<buffer, item, handled>>
                 [] NextEntry = "value" ->
                    /\ item' = BufferHead
                    /\ handled' = Append(handled, BufferHead)
                    /\ buffer' = BufferShifted
                    /\ dpc' = "handleLine"
                    /\ UNCHANGED nextWaitingPromises
                 [] OTHER ->
                    /\ dpc' = "loop"
                    /\ UNCHANGED <<buffer, nextWaitingPromises, item, handled>>
            /\ UNCHANGED <<fpc, sinkLog>>
    /\ UNCHANGED <<srcDone, reading, looping, resumed, peekWaitingPromises, released, input, raw, callerVars, alphabet,
                   stackParts, rest, lookahead, batchVars, fstatus, nTimer, nFail, discordLog, during>>

\* a suspended iter.next() of the driver settles: of the loop, or of the lookahead
DriverNextResume ==
    /\ dpc \in {"nextWait", "consumeWait"}
    /\ released # <<>>
    /\ Head(released).who = DriverId
    /\ Head(released).op = "next"
    /\ released' = Tail(released)
    /\ IF Head(released).how = "reject"
       THEN /\ dpc' = "loop"
            /\ UNCHANGED <<buffer, item, handled, lookahead>>
       ELSE /\ buffer' = BufferShifted
            /\ IF dpc = "nextWait"
               THEN /\ item' = BufferHead
                    /\ handled' = Append(handled, BufferHead)
                    /\ dpc' = "handleLine"
                    /\ UNCHANGED lookahead
               ELSE /\ lookahead' = Append(lookahead, BufferHead)
                    /\ dpc' = "scan"
                    /\ UNCHANGED <<item, handled>>
    /\ UNCHANGED <<srcDone, reading, looping, resumed, peekWaitingPromises, nextWaitingPromises, input, raw, callerVars,
                   alphabet, stackParts, rest, batchVars, flushVars>>

\* handleLine(item) up to its first await
HandleLine ==
    /\ dpc = "handleLine"
    /\ CASE TryBlock(item) = "catch" ->
              /\ stackParts' = <<item>>
              /\ dpc' = "scan"
              /\ UNCHANGED <<rest, batchVars, during>>
         [] TryBlock(item) \in {"time", "level"} ->
              /\ DriverPush(HandleLogFirst(handleInvalid(item, TryBlock(item))))
              /\ dpc' = "loop"
              /\ UNCHANGED <<stackParts, rest>>
         [] TryBlock(item) = "final" ->
              /\ DriverPush(HandleLogFirst(Final(item)))
              /\ rest' = Rest(Final(item))
              /\ dpc' = IF Truthy(Final(item).name) THEN "pushRest" ELSE "loop"
              /\ UNCHANGED stackParts
    /\ UNCHANGED <<iterVars, callerVars, alphabet, item, handled, lookahead,
                   fpc, fstatus, nTimer, nFail, sinkLog, discordLog>>

\* handleLog after await handleLog(<the name diagnostic>): batch.push(rest)
PushRest ==
    /\ dpc = "pushRest"
    /\ DriverPush(rest)
    /\ dpc' = "loop"
    /\ UNCHANGED <<iterVars, callerVars, alphabet, item, stackParts, rest, handled, lookahead,
                   fpc, fstatus, nTimer, nFail, sinkLog, discordLog>>

\* let next = await iter.peekAnd(...), up to the await inside peek()
Scan ==
    /\ dpc = "scan"
    /\ IF PeekEntry = "await"
       THEN /\ peekWaitingPromises' = Append(peekWaitingPromises, DriverId)
            /\ dpc' = "peekWait"
            /\ UNCHANGED <<stackParts, batchVars, during>>
       ELSE /\ Lookahead(peekAnd(IF PeekEntry = "return" THEN Absent ELSE BufferHead))
            /\ UNCHANGED peekWaitingPromises
    /\ UNCHANGED <<srcDone, reading, looping, resumed, buffer, nextWaitingPromises, released, input, raw, callerVars,
                   alphabet, item, rest, handled, lookahead,
                   fpc, fstatus, nTimer, nFail, sinkLog, discordLog>>

\* the suspended peek() of the lookahead is released: return this.buffer[0]
DriverPeekResume ==
    /\ dpc = "peekWait"
    /\ released # <<>>
    /\ Head(released) = Settled(DriverId, "peek", "resolve")
    /\ released' = Tail(released)
    /\ Lookahead(peekAnd(BufferHead))
    /\ UNCHANGED <<srcDone, reading, looping, resumed, buffer, peekWaitingPromises, nextWaitingPromises, input, raw,
                   callerVars, alphabet, item, rest, handled, lookahead,
                   fpc, fstatus, nTimer, nFail, sinkLog, discordLog>>

\* await iter.next() inside the lookahead loop
Consume ==
    /\ dpc = "consume"
    /\ CASE NextEntry = "value" ->
              /\ lookahead' = Append(lookahead, BufferHead)
              /\ buffer' = BufferShifted
              /\ dpc' = "scan"
              /\ UNCHANGED nextWaitingPromises
         [] NextEntry = "await" ->
              /\ nextWaitingPromises' = Append(nextWaitingPromises, DriverId)
              /\ dpc' = "consumeWait"
              /\ UNCHANGED <<buffer, lookahead>>
         [] NextEntry = "throw" ->
              /\ dpc' = "loop"
              /\ UNCHANGED <<buffer, nextWaitingPromises, lookahead>>
    /\ UNCHANGED <<srcDone, reading, looping, resumed, peekWaitingPromises, released, input, raw, callerVars, alphabet,
                   item, stackParts, rest, handled, batchVars, flushVars>>

\* process.stdin yields a chunk.  While flush() runs between two of its awaits nothing else does.
StdinChunk ==
    /\ \A f \in FlushIds : fpc[f] \notin {"afterFatal", "afterWarn"}
    /\ \E chunk \in Chunks(alphabet, Min(MaxItems - Len(input), MaxChunk)) :
           loop(chunk, FALSE)
    /\ UNCHANGED <<raw, callerVars, alphabet, driverVars, batchVars, flushVars>>

\* process.stdin ends: { value: undefined, done: true }
StdinEnd ==
    /\ \A f \in FlushIds : fpc[f] \notin {"afterFatal", "afterWarn"}
    /\ loop(<<>>, TRUE)
    /\ UNCHANGED <<raw, callerVars, alphabet, driverVars, batchVars, flushVars>>

\* ------------------------------------------------------------------ specifications
IterInit ==
    /\ srcDone = FALSE
    /\ reading = TRUE
    /\ looping = 1
    /\ resumed = NoResume
    /\ buffer = <<>>
    /\ peekWaitingPromises = <<>>
    /\ nextWaitingPromises = <<>>
    /\ released = <<>>
    /\ input = <<>>
    /\ raw = <<>>

CallersInit ==
    /\ cpc = [c \in Callers |-> "idle"]
    /\ cres = [c \in Callers |-> NoResult]
    /\ cwhy = [c \in Callers |-> NoWhy]
    /\ peekMark = [c \in Callers |-> NoMark]
    /\ nextReturned = <<>>

ProgramInit(pc, timers, failures) ==
    /\ dpc = pc
    /\ item = Absent
    /\ stackParts = <<>>
    /\ rest = Log("", "", 0, <<>>, "absent", "", 0)
    /\ handled = <<>>
    /\ lookahead = <<>>
    /\ batch = <<>>
    /\ appended = <<>>
    /\ fpc = [f \in FlushIds |-> "idle"]
    /\ fstatus = [f \in FlushIds |-> 0]
    /\ nTimer = timers
    /\ nFail = failures
    /\ sinkLog = <<>>
    /\ discordLog = <<>>
    /\ during = [f \in FlushIds |-> {}]

\* The program: index.ts after ensureStream(), with the batch empty, reading a process
\* that writes stack traces, structured records with and without a name, bare JSON
\* values and empty lines
Init ==
    /\ IterInit
    /\ CallersInit
    /\ alphabet = {<<>>, <<"text">>, <<"crash">>, <<"info">>, <<"prim">>, <<"named">>, <<"noname">>}
    /\ ProgramInit("loop", 0, 0)

\* A run of the program shorter than the timer's interval, with a sink and a notification
\* channel that answer with success: the driver loop, handleLine and the final flush()
LineInit ==
    /\ IterInit
    /\ CallersInit
    /\ alphabet = {<<>>, <<"text">>, <<"crash">>, <<"info">>, <<"prim">>, <<"named">>,
                   <<"noname">>, <<"notime">>, <<"nolevel">>, <<"notimeNamed">>, <<"badtime">>}
    /\ ProgramInit("loop", MaxTimerFlushes, MaxFailures)

Next ==
    \/ StdinChunk
    \/ StdinEnd
    \/ DriverLoop
    \/ DriverNextResume
    \/ HandleLine
    \/ PushRest
    \/ Scan
    \/ DriverPeekResume
    \/ Consume
    \/ TimerFire
    \/ \E f \in FlushIds : SinkResponse(f)
    \/ \E f \in FlushIds : SinkFailure(f)
    \/ \E f \in FlushIds : AfterFatal(f)
    \/ \E f \in FlushIds : DiscordResponse(f)
    \/ \E f \in FlushIds : AfterWarn(f)

Spec == Init /\ [][Next]_vars

\* A run like LineInit's of a process that writes structured records of every level of
\* the table and of a level outside it, a record with a name, and crash output
RecordInit ==
    /\ IterInit
    /\ CallersInit
    /\ alphabet = {<<"fatal60">>, <<"error">>, <<"warn40">>, <<"info">>, <<"debug20">>,
                   <<"trace10">>, <<"level35">>, <<"named">>, <<"crash">>}
    /\ ProgramInit("loop", MaxTimerFlushes, MaxFailures)

\* The program with its timer and failing sink and channel, reading a process that
\* writes named structured records and crash output
FlushInit ==
    /\ IterInit
    /\ CallersInit
    /\ alphabet = {<<"named">>, <<"crash">>}
    /\ ProgramInit("loop", 0, 0)

LineNext ==
    \/ StdinChunk
    \/ StdinEnd
    \/ DriverLoop
    \/ DriverNextResume
    \/ HandleLine
    \/ PushRest
    \/ Scan
    \/ DriverPeekResume
    \/ Consume
    \/ SinkResponse(FinalFlush)
    \/ DiscordResponse(FinalFlush)

LineSpec == LineInit /\ [][LineNext]_vars

\* The driver's continuations are microtasks: each runs once it is runnable
DriverFairness ==
    /\ WF_vars(DriverLoop)
    /\ WF_vars(DriverNextResume)
    /\ WF_vars(HandleLine)
    /\ WF_vars(PushRest)
    /\ WF_vars(Scan)
    /\ WF_vars(DriverPeekResume)
    /\ WF_vars(Consume)

LiveSpec == LineInit /\ [][LineNext]_vars /\ DriverFairness

RecordSpec == RecordInit /\ [][LineNext]_vars

FlushSpec == FlushInit /\ [][Next]_vars

\* A LazyIter on its own, used by NumCallers callers
StreamInit ==
    /\ IterInit
    /\ CallersInit
    /\ alphabet = {<<"text">>}
    /\ ProgramInit("off", 0, 0)

StreamNext ==
    \/ IterChunk
    \/ IterEnd
    \/ \E c \in Callers : CallPeek(c) /\ CallerFrame
    \/ \E c \in Callers : ResumePeek(c) /\ CallerFrame
    \/ \E c \in Callers : CallNext(c) /\ CallerFrame
    \/ \E c \in Callers : ResumeNext(c) /\ CallerFrame

StreamSpec == StreamInit /\ [][StreamNext]_vars

\* A LazyIter over an input text that arrives divided into chunks at any place: a chunk
\* may end inside a line, at a newline or after it
SplitInit ==
    /\ IterInit
    /\ CallersInit
    /\ alphabet = {<<>>, <<"text">>}
    /\ ProgramInit("off", 0, 0)

SplitNext ==
    \/ RawChunk
    \/ IterEnd
    \/ \E c \in Callers : CallPeek(c) /\ CallerFrame
    \/ \E c \in Callers : ResumePeek(c) /\ CallerFrame
    \/ \E c \in Callers : CallNext(c) /\ CallerFrame
    \/ \E c \in Callers : ResumeNext(c) /\ CallerFrame

SplitSpec == SplitInit /\ [][SplitNext]_vars

\* A LazyIter whose users also call pause() and resume()
PauseNext ==
    \/ StreamNext
    \/ pause /\ UNCHANGED <<callerVars, alphabet, driverVars, batchVars, flushVars>>
    \/ resume /\ UNCHANGED <<callerVars, alphabet, driverVars, batchVars, flushVars>>

PauseSpec == StreamInit /\ [][PauseNext]_vars


\* ------------------------------------------------------------------ claims: the batch
\* C1: a record the driver appends to the batch after a flush() took its snapshot and
\* before that flush() returns is not in the submitted snapshot and is still in the batch
\* when that flush() returns.
C1_AppendDuringFlushKept ==
    [][\A f \in FlushIds :
          (InFlight(f) /\ fpc'[f] = "done") =>
             \A r \in during[f] :
                /\ r \in Range(batch')
                /\ \A i \in DOMAIN sinkLog :
                      sinkLog[i].flush = f => r \notin Range(sinkLog[i].body)]_vars

\* C2: when the sink answers a submitted batch with a non-success status, the batch holds,
\* when that flush() returns, exactly one fatal diagnostic record of the failure and none
\* of the records of the failed batch.
C2_SinkFailureLeavesOneFatal ==
    [][\A f \in FlushIds :
          (InFlight(f) /\ fpc'[f] = "done" /\ fstatus[f] \notin {0, 200}) =>
             /\ Cardinality({i \in DOMAIN batch' :
                                /\ batch'[i].kind = "sinkFail"
                                /\ batch'[i].flush = f
                                /\ batch'[i].level = "fatal"}) = 1
             /\ \A i \in DOMAIN sinkLog :
                   sinkLog[i].flush = f =>
                      Range(sinkLog[i].body) \cap Range(batch') = {}]_vars

\* C9: across all flush() invocations, overlapping ones included, every record is
\* submitted to the sink at most once, and when a flush() returns the batch holds none of
\* the records it submitted.
C9_SubmittedAtMostOnce ==
    [][/\ \A i \in DOMAIN sinkLog' : \A j \in DOMAIN sinkLog' :
             i # j => Range(sinkLog'[i].body) \cap Range(sinkLog'[j].body) = {}
       /\ \A f \in FlushIds :
             (InFlight(f) /\ fpc'[f] = "done") =>
                \A i \in DOMAIN sinkLog :
                   sinkLog[i].flush = f =>
                      Range(sinkLog[i].body) \cap Range(batch') = {}]_vars

\* C10: for every structured line with time, level and a name field, whatever its value,
\* handleLine appends first the warn diagnostic about the reserved name and then the
\* record without the name; no appended record has a name.
C10_NamedRecordWarnThenStripped ==
    /\ \A n \in DOMAIN appended : appended[n].name = "absent"
    /\ dpc = "done" =>
          \A k \in DOMAIN handled :
             (/\ TryBlock(handled[k]) = "final"
              /\ JSONparse(handled[k].text).name # "absent")
             => \E a \in DOMAIN appended : \E b \in DOMAIN appended :
                   /\ a < b
                   /\ appended[a] = NameWarn(Final(handled[k]))
                   /\ appended[b] = Rest(Final(handled[k]))

\* C13: every notification call of a flush() carries exactly the error- and fatal-level
\* records of the snapshot that flush() submitted to the sink, in one call per flush().
C13_AlertIsErrorsOfSnapshot ==
    /\ \A d \in DOMAIN discordLog :
          \E i \in DOMAIN sinkLog :
             /\ sinkLog[i].flush = discordLog[d].flush
             /\ discordLog[d].embeds = Errors(sinkLog[i].body)
    /\ \A d \in DOMAIN discordLog : \A e \in DOMAIN discordLog :
          d # e => discordLog[d].flush # discordLog[e].flush

\* C14: when the notification call of a flush() has failed, the batch holds, when that
\* flush() returns, the warn diagnostic record of the failure; the flush() has made its
\* one sink submission and its one notification call.
C14_NotifyFailureLeavesWarn ==
    [][\A f \in FlushIds :
          (fpc[f] = "afterWarn" /\ fpc'[f] = "done") =>
             /\ \E n \in DOMAIN batch' :
                   /\ batch'[n].kind = "discordFail"
                   /\ batch'[n].level = "warn"
                   /\ batch'[n].flush = f
             /\ Cardinality({i \in DOMAIN sinkLog' : sinkLog'[i].flush = f}) = 1
             /\ Cardinality({d \in DOMAIN discordLog' : discordLog'[d].flush = f}) = 1]_vars

\* C16: a flush() called while the batch is empty makes no sink submission and no
\* notification call, leaves the batch empty and returns at once.
C16_EmptyFlushDoesNothing ==
    /\ [](\A d \in DOMAIN discordLog :
             \E i \in DOMAIN sinkLog : sinkLog[i].flush = discordLog[d].flush)
    /\ [][\A f \in FlushIds :
             (fpc[f] = "idle" /\ fpc'[f] # "idle" /\ batch = <<>>) =>
                /\ sinkLog' = sinkLog
                /\ discordLog' = discordLog
                /\ batch' = <<>>
                /\ fpc'[f] = "done"]_vars

\* a flush() started by the timer has returned without a submission to the sink
C16_Witness ==
    \E f \in 1..MaxTimerFlushes :
        /\ fpc[f] = "done"
        /\ \A i \in DOMAIN sinkLog : sinkLog[i].flush # f
        /\ \A d \in DOMAIN discordLog : discordLog[d].flush # f

\* ------------------------------------------------------------------ claims: crash runs
\* C3: the lookahead never consumes a line that parses; after a run of unparseable lines
\* has been handled, the valid line that follows it is the next item of the stream; and
\* when the program has ended every line that parses was an item of the driver loop, with
\* its own record if it is a structured record.
C3_LookaheadLeavesValidLine ==
    /\ \A i \in DOMAIN lookahead : ~isValidJson(lookahead[i])
    /\ \A k \in 2..Len(input) :
          (/\ isValidJson(input[k])
           /\ ~isValidJson(input[k - 1])
           /\ dpc = "loop"
           /\ Len(handled) + Len(lookahead) = k - 1)
          => (buffer # <<>> /\ Head(buffer) = input[k])
    /\ dpc = "done" =>
          \A k \in DOMAIN input :
             isValidJson(input[k]) =>
                /\ input[k] \in Range(handled)
                /\ TryBlock(input[k]) = "final" =>
                      \E n \in DOMAIN appended : appended[n] = Rest(Final(input[k]))

\* the program has ended after a run of two unparseable lines, the second taken by the
\* lookahead, and the structured line after them has its record
C3_Witness ==
    /\ dpc = "done"
    /\ \E k \in 3..Len(input) :
          /\ TryBlock(input[k]) = "final"
          /\ input[k - 1] \in Range(lookahead)
          /\ input[k] \in Range(handled)
          /\ \E n \in DOMAIN appended : appended[n] = Rest(Final(input[k]))

\* C4: when the program has ended, every maximal run of unparseable lines that starts the
\* stream or follows a line handleLine's try block handled has, if one of its lines holds
\* the marker, exactly one crash record, at level fatal, whose stack is the lines of the
\* run joined by newline in their order, and no crash record otherwise.
C4_CrashRunOneFatalRecord ==
    dpc = "done" =>
       \A i \in DOMAIN input : \A j \in i..Len(input) :
          (/\ \A k \in i..j : ~isValidJson(input[k])
           /\ (i = 1 \/ TryBlock(input[i - 1]) # "catch")
           /\ (j = Len(input) \/ isValidJson(input[j + 1])))
          => LET ofRun == {n \in DOMAIN appended :
                              appended[n].kind = "crash" /\ appended[n].src \in i..j}
             IN  IF \E k \in i..j : includesError(input[k])
                 THEN /\ Cardinality(ofRun) = 1
                      /\ \A n \in ofRun :
                            /\ appended[n].level = "fatal"
                            /\ appended[n].stack =
                                  JoinNL([k \in 1..(j - i + 1) |-> input[i + k - 1].text])
                 ELSE ofRun = {}

\* the program has ended after a run of two unparseable lines with the marker, followed by
\* a structured line, and the run's crash record holds both lines
C4_Witness ==
    /\ dpc = "done"
    /\ \E k \in 3..Len(input) :
          /\ TryBlock(input[k]) = "final"
          /\ ~isValidJson(input[k - 1])
          /\ ~isValidJson(input[k - 2])
          /\ (k = 3 \/ TryBlock(input[k - 3]) # "catch")
          /\ \E n \in DOMAIN appended :
                /\ appended[n].kind = "crash"
                /\ appended[n].src = k - 2
                /\ appended[n].stack = input[k - 2].text \o <<NL>> \o input[k - 1].text


\* ------------------------------------------------------------------ claims: incomplete records
\* C11: once handleLine has handled a line that parses as an object but lacks time or
\* level, exactly one record was appended for the line, a warn diagnostic naming the
\* missing field (time when both are missing), and the line after it was not taken by
\* the lookahead.
C11_MissingFieldOneWarn ==
    \A k \in DOMAIN handled :
       (/\ TryBlock(handled[k]) \in {"time", "level"}
        /\ (k < Len(handled) \/ dpc # "handleLine"))
       => /\ Cardinality({n \in DOMAIN appended : appended[n].src = handled[k].pos}) = 1
          /\ \A n \in DOMAIN appended :
                appended[n].src = handled[k].pos =>
                   /\ appended[n].level = "warn"
                   /\ appended[n].kind = "missing"
                   /\ appended[n].field =
                         (IF JSONparse(handled[k].text).time = "absent" THEN "time" ELSE "level")
          /\ \A i \in DOMAIN lookahead : lookahead[i].pos # handled[k].pos + 1

\* the program has ended after a record lacking level that was followed by a line that
\* does not parse, and the record has its diagnostic
C11_Witness ==
    /\ dpc = "done"
    /\ \E k \in 1..(Len(input) - 1) :
          /\ TryBlock(input[k]) = "level"
          /\ ~isValidJson(input[k + 1])
          /\ input[k] \in Range(handled)
          /\ \E n \in DOMAIN appended :
                appended[n].src = k /\ appended[n].field = "level"

\* C20: once handleLine has handled a line that parses as an object, lacks time or level
\* and carries a name, a warn diagnostic about the reserved name was appended for the
\* line before its missing-field diagnostic.
C20_NameWarnBeforeMissingField ==
    \A k \in DOMAIN handled :
       (/\ TryBlock(handled[k]) \in {"time", "level"}
        /\ JSONparse(handled[k].text).name # "absent"
        /\ (k < Len(handled) \/ dpc # "handleLine"))
       => \E a \in DOMAIN appended : \E b \in DOMAIN appended :
             /\ a < b
             /\ appended[a].kind = "nameWarn"
             /\ appended[a].level = "warn"
             /\ appended[a].src = handled[k].pos
             /\ appended[b].kind = "missing"
             /\ appended[b].src = handled[k].pos

\* ------------------------------------------------------------------ claims: structured records
\* C12: while every line read so far is a structured record with time and level and
\* without name, the n-th record appended is the record of the n-th line, with the level
\* the table gives for the line's numeric level (unknown outside the table), and when
\* the program has ended there are as many records as lines.
C12_OneRecordPerLineInOrder ==
    (\A k \in DOMAIN input :
        /\ TryBlock(input[k]) = "final"
        /\ JSONparse(input[k].text).name = "absent")
    => /\ Len(appended) <= Len(input)
       /\ \A n \in DOMAIN appended :
             LET code == JSONparse(input[n].text).level
             IN  /\ appended[n].kind = "log"
                 /\ appended[n].src = n
                 /\ appended[n].level =
                       (IF code = 60 THEN "fatal" ELSE IF code = 50 THEN "error"
                        ELSE IF code = 40 THEN "warn" ELSE IF code = 30 THEN "info"
                        ELSE IF code = 20 THEN "debug" ELSE IF code = 10 THEN "trace"
                        ELSE "unknown")
       /\ dpc = "done" => Len(appended) = Len(input)

\* the program has ended after three structured records, one of a level outside the
\* table and one of level 60, with three records appended
C12_Witness ==
    /\ dpc = "done"
    /\ Len(input) = 3
    /\ Len(appended) = 3
    /\ \A k \in DOMAIN input :
          TryBlock(input[k]) = "final" /\ JSONparse(input[k].text).name = "absent"
    /\ \E k \in DOMAIN input : JSONparse(input[k].text).level = 35
    /\ \E k \in DOMAIN input : JSONparse(input[k].text).level = 60

\* ------------------------------------------------------------------ claims: the driver loop
\* C15: once the source has completed the driver loop ends; when it has ended the stream
\* is done, every item of the stream was taken, and the final flush() has been started;
\* the final flush() is started by the driver at the end of its loop, once.
C15_DriverLoopTerminates ==
    /\ srcDone ~> (dpc \in {"finalFlush", "done"})
    /\ [](dpc \in {"finalFlush", "done"} =>
             /\ done
             /\ Len(handled) + Len(lookahead) = Len(input)
             /\ fpc[FinalFlush] # "idle")
    /\ [][/\ (fpc[FinalFlush] = "idle" /\ fpc'[FinalFlush] # "idle") => (dpc = "loop" /\ done)
          /\ fpc[FinalFlush] # "idle" => fpc'[FinalFlush] \notin {"idle", "awaitSink"}
                                           \/ fpc'[FinalFlush] = fpc[FinalFlush]]_vars

\* the program has ended after a crash run that the lookahead was still reading when the
\* source completed
C15_Witness ==
    /\ dpc = "done"
    /\ Len(input) >= 2
    /\ input[Len(input)] \in Range(lookahead)
    /\ Len(handled) + Len(lookahead) = Len(input)

\* ------------------------------------------------------------------ claims: the stream
\* C5: every completed next() returns an item the pull loop appended, never an absent
\* value, and across all next() calls the items come out once each, in the order appended.
C5_NextReturnsEachItemOnce ==
    \A i \in DOMAIN nextReturned :
        /\ nextReturned[i] # Absent
        /\ nextReturned[i] \in Range(input)
        /\ \A j \in 1..(i - 1) : nextReturned[j].pos < nextReturned[i].pos

\* C6: a completed peek() returns absent only when the stream is done, and otherwise the
\* oldest item not yet consumed; once the stream is done no peek() is left suspended.
C6_PeekAbsentOnlyWhenDone ==
    /\ \A c \in Callers :
          cres[c].op = "peek" =>
              /\ cres[c].val = Absent => cres[c].wasDone
              /\ ~cres[c].wasDone => cres[c].val = cres[c].oldest
    /\ done => peekWaitingPromises = <<>>

\* C7: two peek() calls of one caller, one after the other with no next() of any caller
\* between the first call and the second return, return the same item, and the buffer
\* after them is the buffer before them plus what the pull loop appended meanwhile.
C7_PeekTwiceSame ==
    \A c \in Callers :
        peekMark[c].n = 2 =>
            /\ peekMark[c].val = peekMark[c].prevVal
            /\ IsPrefix(peekMark[c].prevBuf, peekMark[c].bufAfter)
            /\ Range(peekMark[c].bufAfter) \subseteq Range(input)

\* C7 witness: a second peek() returned an item after the pull loop had appended another
C7_Witness ==
    \E c \in Callers :
        /\ peekMark[c].n = 2
        /\ peekMark[c].val # Absent
        /\ Len(peekMark[c].prevBuf) > 0
        /\ Len(peekMark[c].bufAfter) > Len(peekMark[c].prevBuf)

\* C8: next() fails exactly when the stream is done at the call or the source completes
\* while the call is suspended; with the source completed and items still buffered,
\* next() returns the oldest of them; done is true only once every item has been removed.
C8_NextFailsExactlyWhenExhausted ==
    /\ \A c \in Callers :
          (cpc[c] = "idle" /\ cres[c].op = "next") =>
              /\ cres[c].err <=> (cwhy[c].atCall \/ cwhy[c].whileSuspended)
              /\ (cwhy[c].srcDoneAtCall /\ ~cwhy[c].atCall) =>
                     /\ ~cres[c].err
                     /\ cres[c].val # Absent
                     /\ cres[c].val = cwhy[c].headAtCall
    /\ done => /\ srcDone
               /\ Cardinality({i \in DOMAIN nextReturned : nextReturned[i] # Absent}) = Len(input)

\* C8 witness: after the source completed with an item buffered, a next() returned that
\* item and the stream became done, and another next() then failed
C8_Witness ==
    \E c, d \in Callers :
        /\ cpc[c] = "idle" /\ cres[c].op = "next" /\ ~cres[c].err
        /\ cwhy[c].srcDoneAtCall /\ cres[c].val # Absent
        /\ cpc[d] = "idle" /\ cres[d].op = "next" /\ cres[d].err /\ cwhy[d].atCall
        /\ done

\* C17: once the source has completed no call waits for a release: the waiting lists are
\* empty, every call still suspended has been settled (a peek() resolved, a next()
\* rejected), a next() that was waiting at completion fails, a peek() that completes on
\* a done stream returns absent, and no later call suspends.
C17_CompletionReleasesAll ==
    /\ [](srcDone =>
             /\ peekWaitingPromises = <<>>
             /\ nextWaitingPromises = <<>>
             /\ \A c \in Callers :
                   /\ cpc[c] = "peek" => Settled(c, "peek", "resolve") \in Range(released)
                   /\ cpc[c] = "next" => Settled(c, "next", "reject") \in Range(released)
                   /\ (cpc[c] = "idle" /\ cres[c].op = "next" /\ cwhy[c].whileSuspended)
                         => cres[c].err
                   /\ (cres[c].op = "peek" /\ cres[c].wasDone) => cres[c].val = Absent)
    /\ [][srcDone => \A c \in Callers : cpc[c] = "idle" => cpc'[c] = "idle"]_vars

\* the source has completed while one caller waited in next() and another in peek(), and
\* both have been settled
C17_Witness ==
    /\ srcDone
    /\ \E c \in Callers : \E d \in Callers :
          /\ cpc[c] = "next"
          /\ cpc[d] = "peek"
          /\ Settled(c, "next", "reject") \in Range(released)
          /\ Settled(d, "peek", "resolve") \in Range(released)

\* C18: at most one instance of the pull loop runs, so at most one request to the source
\* is outstanding; resume() returns false exactly when the source has completed, and
\* then starts nothing.
C18_OnePullLoop ==
    /\ looping <= 1
    /\ resumed.ret # "none" =>
          /\ (resumed.ret = "false") <=> resumed.wasDone
          /\ resumed.wasDone => resumed.started = 0

\* C19: when the source has completed, the items the stream has yielded are the
\* newline-delimited lines of the input text, however the text was divided into chunks.
C19_ItemsAreLinesOfInput ==
    srcDone =>
       [i \in DOMAIN input |-> input[i].text] = (IF raw = <<>> THEN <<>> ELSE split(raw))

=============================================================================
